---- MODULE Spec2Model ----
\* A model of sqlite_fdw's src/funcs.c: the type classifier
\* (translate_sqliteType__ / get_affinity__), the table scope filter
\* (is_sqliteTableRequired) and the foreign-table statement synthesizer
\* (get_foreignTableCreationSql / add_columnDefinition__).
\*
\* C strings whose characters the code inspects (type declarations and the
\* type names derived from them) are sequences of one-character strings.
\* Strings the code only compares as a whole or copies (table, column, schema
\* and server names, default texts, format literals) are TLA+ strings.
EXTENDS Integers, Sequences, FiniteSets, TLC

VARIABLES
    \* --- classifier harness
    decl,          \* the declaration handed to translate_sqliteType__
    nparts,        \* number of fragments decl was assembled from
    cres,          \* Ran(outcome of translate_sqliteType__(decl)), or NotRun
    \* --- inputs of is_sqliteTableRequired / get_foreignTableCreationSql
    stmt,          \* ImportForeignSchemaStmt: list_type, table_list, local_schema, server_name
    tablename,
    importOptions, \* SqliteTableImportOptions: import_notnull, import_default
    sres,          \* Ran(result of a direct is_sqliteTableRequired call), or NotRun
    \* --- get_foreignTableCreationSql: locals and control position
    pc,
    required,      \* Ran(is_sqliteTableRequired() at line 202), or NotRun
    cftsql,        \* StringInfoData: state of .data (uninit, null, live, freed) and its pieces
    columns,       \* sqlite3_stmt * volatile columns
    counter,       \* int volatile counter
    ret,           \* what the caller gets
    \* --- the sqlite3 library, as observed by the function
    rows,          \* rows sqlite3_step has yielded so far, in order
    nPrepare,      \* calls of sqlite3_prepare_v2
    nClassify,     \* calls of translate_sqliteType__
    finalized      \* handles sqlite3_finalize was called on, in order

vars == <<decl, nparts, cres, stmt, tablename, importOptions, sres, pc, required,
          cftsql, columns, counter, ret, rows, nPrepare, nClassify, finalized>>

classifyVars == <<decl, nparts, cres>>
inputVars == <<stmt, tablename, importOptions>>
synthVars == <<pc, required, cftsql, columns, counter, ret, rows, nPrepare,
               nClassify, finalized>>

NULL == "NULL"
\* A call that has not been made yet, and the value a call that was made gave.
NotRun == [run |-> FALSE]
Ran(v) == [run |-> TRUE, value |-> v]

-----------------------------------------------------------------------------
\* libc / PostgreSQL string helpers used by funcs.c

UpperCase == <<"A","B","C","D","E","F","G","H","I","J","K","L","M",
               "N","O","P","Q","R","S","T","U","V","W","X","Y","Z">>
LowerCase == <<"a","b","c","d","e","f","g","h","i","j","k","l","m",
               "n","o","p","q","r","s","t","u","v","w","x","y","z">>

\* asc_tolower on one byte: 'A'..'Z' are shifted to 'a'..'z', all else is kept.
asc_tolower_char(c) ==
    IF \E i \in DOMAIN UpperCase : UpperCase[i] = c
    THEN LowerCase[CHOOSE i \in DOMAIN UpperCase : UpperCase[i] = c]
    ELSE c

\* asc_tolower(type, strlen(type) + 1): a lowercased copy of the string.
asc_tolower(s) == [i \in 1..Len(s) |-> asc_tolower_char(s[i])]

\* strstr(haystack, needle) != NULL
strstr_found(h, n) ==
    \E i \in 0..(Len(h) - Len(n)) : SubSeq(h, i + 1, i + Len(n)) = n

\* strcmp(a, b): 0 iff the strings are equal. The code only tests the result
\* against zero, so every nonzero value is represented by 1.
strcmp(a, b) == IF a = b THEN 0 ELSE 1

\* The first n bytes of s, or all of s when it is shorter: what strncmp reads
\* before it meets the terminating NUL.
FirstBytes(s, n) == SubSeq(s, 1, IF Len(s) < n THEN Len(s) ELSE n)

\* strncmp(a, b, n): 0 iff a and b agree on their first n bytes (a string
\* that ends earlier differs from the longer one at its NUL).
strncmp(a, b, n) == IF FirstBytes(a, n) = FirstBytes(b, n) THEN 0 ELSE 1

-----------------------------------------------------------------------------
\* String literals of translate_sqliteType__ and get_affinity__

kw_int  == <<"i","n","t">>
kw_char == <<"c","h","a","r">>
kw_clob == <<"c","l","o","b">>
kw_text == <<"t","e","x","t">>
kw_blob == <<"b","l","o","b">>
kw_real == <<"r","e","a","l">>
kw_floa == <<"f","l","o","a">>
kw_doub == <<"d","o","u","b">>
kw_bool == <<"b","o","o","l">>
kw_date == <<"d","a","t","e">>
kw_timestamp == <<"t","i","m","e","s","t","a","m","p">>

ty_text    == <<"t","e","x","t">>
ty_bigint  == <<"b","i","g","i","n","t">>
ty_double  == <<"d","o","u","b","l","e"," ","p","r","e","c","i","s","i","o","n">>
ty_bytea   == <<"b","y","t","e","a">>
ty_boolean == <<"b","o","o","l","e","a","n">>

\* strncmp(type, "bool", 4)
BoolPrefixLen == 4

\* get_affinity__ with the Text rule tried before the Integer rule.
get_affinity_text_first(type) ==
    IF \/ strstr_found(type, kw_char)
       \/ strstr_found(type, kw_clob)
       \/ strstr_found(type, kw_text) THEN "Text"
    ELSE IF strstr_found(type, kw_int) THEN "Integer"
    ELSE IF strstr_found(type, kw_blob) THEN "Blob"
    ELSE IF \/ strstr_found(type, kw_real)
            \/ strstr_found(type, kw_floa)
            \/ strstr_found(type, kw_doub) THEN "Real"
    ELSE "Numeric"

\* get_affinity__: the first matching rule decides.
get_affinity__(type) ==
    IF strstr_found(type, kw_int) THEN "Integer"
    ELSE IF \/ strstr_found(type, kw_char)
            \/ strstr_found(type, kw_clob)
            \/ strstr_found(type, kw_text) THEN "Text"
    ELSE IF strstr_found(type, kw_blob) THEN "Blob"
    ELSE IF \/ strstr_found(type, kw_real)
            \/ strstr_found(type, kw_floa)
            \/ strstr_found(type, kw_doub) THEN "Real"
    ELSE "Numeric"

Returned(v) == [raised |-> FALSE, value |-> v]
\* ereport(ERROR, ... "Could not handle type %s from a sqlite db")
Raised(t) == [raised |-> TRUE, value |-> t]

\* The Numeric tail of translate_sqliteType__ (lines 79-91), type already
\* lowercased. Line 82 tests strcmp(type, "date") for being nonzero.
translate_numeric__(type) ==
    IF strcmp(type, kw_timestamp) = 0 \/ strcmp(type, kw_date) # 0
    THEN Returned(type)
    ELSE IF strncmp(type, kw_bool, BoolPrefixLen) = 0
    THEN Returned(ty_boolean)
    ELSE Raised(type)

translate_affinity__(type, affinity) ==
    IF strcmp(affinity, "Text") = 0 THEN Returned(ty_text)
    ELSE IF strcmp(affinity, "Integer") = 0 THEN Returned(ty_bigint)
    ELSE IF strcmp(affinity, "Real") = 0 THEN Returned(ty_double)
    ELSE IF strcmp(affinity, "Blob") = 0 THEN Returned(ty_bytea)
    ELSE translate_numeric__(type)

translate_sqliteType__(type) ==
    LET lowered == asc_tolower(type)
    IN  translate_affinity__(lowered, get_affinity__(lowered))

-----------------------------------------------------------------------------
\* is_sqliteTableRequired

FDW_IMPORT_SCHEMA_ALL      == "FDW_IMPORT_SCHEMA_ALL"
FDW_IMPORT_SCHEMA_LIMIT_TO == "FDW_IMPORT_SCHEMA_LIMIT_TO"
FDW_IMPORT_SCHEMA_EXCEPT   == "FDW_IMPORT_SCHEMA_EXCEPT"
ListTypes == {FDW_IMPORT_SCHEMA_ALL, FDW_IMPORT_SCHEMA_LIMIT_TO, FDW_IMPORT_SCHEMA_EXCEPT}

\* foreach(lc, table_list) { if (strcmp(tablename, rv->relname) == 0) return ...; }
\* TRUE iff the loop body's test succeeds on some cell, scanning front to back.
RECURSIVE foreach_match(_, _)
foreach_match(table_list, name) ==
    IF table_list = <<>> THEN FALSE
    ELSE IF strcmp(name, Head(table_list)) = 0 THEN TRUE
    ELSE foreach_match(Tail(table_list), name)

\* is_sqliteTableRequired with the EXCEPT loop's `return false` lost, so that
\* the case always falls through to the default.
is_sqliteTableRequired_except_falls_through(st, name) ==
    IF st.list_type = FDW_IMPORT_SCHEMA_LIMIT_TO
    THEN (IF foreach_match(st.table_list, name) THEN TRUE ELSE FALSE)
    ELSE TRUE

is_sqliteTableRequired(st, name) ==
    IF st.list_type = FDW_IMPORT_SCHEMA_LIMIT_TO
    THEN (IF foreach_match(st.table_list, name) THEN TRUE ELSE FALSE)
    ELSE IF st.list_type = FDW_IMPORT_SCHEMA_EXCEPT
    THEN (IF foreach_match(st.table_list, name) THEN FALSE ELSE TRUE)
    ELSE TRUE

-----------------------------------------------------------------------------
\* add_columnDefinition__ and the statement buffer

\* The buffer is the sequence of pieces appendStringInfo has written:
\* format literals, quoted identifiers, raw strings and type names.
Lit(s)   == [lit |-> s]
Ident(s) == [ident |-> s]      \* quote_identifier(s)
Raw(s)   == [raw |-> s]        \* a %s argument written as it is
Type(t)  == [type |-> t]       \* the classifier's result

SQLITE_NULL == "SQLITE_NULL"
SQLITE_TEXT == "SQLITE_TEXT"

\* A PRAGMA table_info row, columns 1..4: name, type, notnull, dflt_value.
\* type_class and dflt_class are what sqlite3_column_type reports.
colname_of(row) == row.name
typename_of(row) == IF row.type_class = SQLITE_NULL THEN kw_blob ELSE row.type_text

\* column_head__ writing the separator before the first column too.
column_head_comma_always(buf, cnt, row) ==
    (buf \o <<Lit(",")>>) \o <<Lit("\n"), Ident(colname_of(row)), Lit(" ")>>

\* Lines 300-304: separator, newline and the quoted column name.
column_head__(buf, cnt, row) ==
    (IF cnt > 0 THEN buf \o <<Lit(",")>> ELSE buf)
        \o <<Lit("\n"), Ident(colname_of(row)), Lit(" ")>>

\* column_notnull__ that does not consult import_notnull.
column_notnull_ignoring_option(opts, row) ==
    IF row.notnull = 1 THEN <<Lit(" NOT NULL ")>> ELSE <<>>

\* Lines 310-318: the optional clauses.
column_notnull__(opts, row) ==
    IF opts.import_notnull /\ row.notnull = 1 THEN <<Lit(" NOT NULL ")>> ELSE <<>>

column_default__(opts, row) ==
    IF opts.import_default /\ row.dflt_class # SQLITE_NULL
    THEN <<Lit(" DEFAULT "), Raw(row.dflt_text), Lit(" ")>>
    ELSE <<>>

\* add_columnDefinition__ that drops a column it cannot classify instead of
\* letting the error through.
add_columnDefinition_swallowing(buf, cnt, opts, row) ==
    LET head == column_head__(buf, cnt, row)
        t == translate_sqliteType__(typename_of(row))
    IN  [raised |-> FALSE,
         buf |-> IF t.raised THEN head
                 ELSE head \o <<Type(t.value), Lit(" ")>>
                           \o column_notnull__(opts, row)
                           \o column_default__(opts, row),
         err |-> NULL]

\* add_columnDefinition__(cftsql, counter, importOpts, columns): the buffer
\* after the call and whether translate_sqliteType__ raised. When it raised,
\* the pieces written before the call (lines 300-304) are in the buffer.
add_columnDefinition__(buf, cnt, opts, row) ==
    LET head == column_head__(buf, cnt, row)
        t == translate_sqliteType__(typename_of(row))
    IN  IF t.raised
        THEN [raised |-> TRUE, buf |-> head, err |-> t.value]
        ELSE [raised |-> FALSE,
              buf |-> head \o <<Type(t.value), Lit(" ")>>
                           \o column_notnull__(opts, row)
                           \o column_default__(opts, row),
              err |-> NULL]

-----------------------------------------------------------------------------
\* Bounds and the inputs the operations are run on

MaxParts == 3     \* fragments a declaration is assembled from
MaxList  == 2     \* cells of stmt->table_list
MaxCols  == 2     \* rows the PRAGMA table_info cursor yields

\* Declarations are concatenations of these fragments, so that keywords occur
\* at the start, in the middle and at the end, alone and together, in both cases.
Fragments ==
    { kw_int, <<"I","N","T">>, <<"e","g","e","r"," ">>,
      kw_char, kw_clob, kw_text,
      kw_blob, <<"B","L","O","B">>,
      kw_real, kw_floa, kw_doub,
      kw_bool, <<"b","o","o">>, <<"e","a","n">>, <<"y">>,
      kw_date, <<"D","A","T","E">>,
      kw_timestamp, <<"n","u","m","e","r","i","c">> }

TableNames == {"t1", "t2", "t3"}

ImportOptions == [import_notnull : BOOLEAN, import_default : BOOLEAN]

\* Rows of PRAGMA table_info: an undeclared type, an integer type and a
\* mixed-case "Date"; with and without NOT NULL; with and without a default.
RowTypes ==
    { [class |-> SQLITE_NULL, text |-> <<>>],
      [class |-> SQLITE_TEXT, text |-> <<"I","N","T">>],
      [class |-> SQLITE_TEXT, text |-> <<"D","a","t","e">>] }
RowDefaults ==
    { [class |-> SQLITE_NULL, text |-> ""],
      [class |-> SQLITE_TEXT, text |-> "0"] }
Rows ==
    { [name |-> n, type_class |-> t.class, type_text |-> t.text, notnull |-> nn,
       dflt_class |-> d.class, dflt_text |-> d.text] :
        n \in {"id", "name"}, t \in RowTypes, nn \in {0, 1}, d \in RowDefaults }

\* Statements the synthesizer is run on, for the table "t1".
SynthStmts ==
    { [list_type |-> lt, table_list |-> tl, local_schema |-> "s", server_name |-> "srv"] :
        lt \in {FDW_IMPORT_SCHEMA_LIMIT_TO, FDW_IMPORT_SCHEMA_EXCEPT},
        tl \in {<<>>, <<"t1">>, <<"t2">>} }
    \cup { [list_type |-> FDW_IMPORT_SCHEMA_ALL, table_list |-> <<>>,
            local_schema |-> "s", server_name |-> "srv"] }

-----------------------------------------------------------------------------
\* get_foreignTableCreationSql

\* Values of the local `columns`: it is declared without an initializer and
\* is assigned only when prepare_sqliteQuery returns.
UNINIT == "UNINIT"      \* never assigned: its value is indeterminate
STMT == "STMT"          \* the handle sqlite3_prepare_v2 produced
GARBAGE == "GARBAGE"    \* a non-NULL indeterminate value, no handle at all

\* What reading `columns` in `if ( columns )` can give.
columns_read(c) == IF c = UNINIT THEN {NULL, GARBAGE} ELSE {c}

\* if ( columns ) sqlite3_finalize(columns);   with `seen` the value read
finalize_if_set(fin, seen) == IF seen # NULL THEN Append(fin, seen) ELSE fin

\* if ( cftsql.data ) pfree(cftsql.data);
pfree_buffer(buf) ==
    IF buf.state = "live" THEN [state |-> "freed", pieces |-> <<>>] ELSE buf

\* Lines 207-213: cftsql.data = NULL; initStringInfo; the statement's prefix.
statement_prefix(st, name) ==
    <<Lit("CREATE FOREIGN TABLE "), Raw(st.local_schema), Lit("."),
      Ident(name), Lit(" (")>>

\* Lines 236-239: the statement's suffix.
statement_suffix(st, name) ==
    <<Lit("\n) SERVER "), Ident(st.server_name), Lit("\nOPTIONS (table '"),
      Ident(name), Lit("')")>>

NoReturn      == [kind |-> "none"]
ReturnNull    == [kind |-> "null"]                    \* return NULL;
ReturnText(d) == [kind |-> "text", data |-> d]        \* return cftsql.data;
Rethrown(e)   == [kind |-> "error", err |-> e]        \* PG_RE_THROW();

\* Line 202: the scope test.
ScopeCheck ==
    /\ pc = "NotStarted"
    /\ required' = Ran(is_sqliteTableRequired(stmt, tablename))
    /\ pc' = "ScopeChecked"
    /\ UNCHANGED <<cftsql, columns, counter, ret, rows, nPrepare, nClassify, finalized>>
    /\ UNCHANGED <<classifyVars, inputVars, sres>>

\* Line 203: return NULL.
SkipOutOfScope ==
    /\ pc = "ScopeChecked"
    /\ ~required.value
    /\ ret' = ReturnNull
    /\ pc' = "SkippedOutOfScope"
    /\ UNCHANGED <<required, cftsql, columns, counter, rows, nPrepare, nClassify, finalized>>
    /\ UNCHANGED <<classifyVars, inputVars, sres>>

\* PrepareOk entered whatever the scope test said.
PrepareOk_unscoped ==
    /\ pc = "ScopeChecked"
    /\ cftsql' = [state |-> "live", pieces |-> statement_prefix(stmt, tablename)]
    /\ nPrepare' = nPrepare + 1
    /\ columns' = STMT
    /\ pc' = "Iterating"
    /\ UNCHANGED <<required, counter, ret, rows, nClassify, finalized>>
    /\ UNCHANGED <<classifyVars, inputVars, sres>>

\* Lines 205-216, prepare_sqliteQuery returns the statement handle.
PrepareOk ==
    /\ pc = "ScopeChecked"
    /\ required.value
    /\ cftsql' = [state |-> "live", pieces |-> statement_prefix(stmt, tablename)]
    /\ nPrepare' = nPrepare + 1
    /\ columns' = STMT
    /\ pc' = "Iterating"
    /\ UNCHANGED <<required, counter, ret, rows, nClassify, finalized>>
    /\ UNCHANGED <<classifyVars, inputVars, sres>>

\* Lines 205-216 with prepare_sqliteQuery raising (lines 147-154), then the
\* PG_CATCH block (lines 221-229): `columns` was never assigned.
PrepareRaises ==
    /\ pc = "ScopeChecked"
    /\ required.value
    /\ nPrepare' = nPrepare + 1
    /\ cftsql' = pfree_buffer([state |-> "live",
                               pieces |-> statement_prefix(stmt, tablename)])
    /\ \E seen \in columns_read(columns) :
           finalized' = finalize_if_set(finalized, seen)
    /\ ret' = Rethrown("SQL error during prepare")
    /\ pc' = "FailedOnPrepare"
    /\ UNCHANGED <<required, columns, counter, rows, nClassify>>
    /\ UNCHANGED <<classifyVars, inputVars, sres>>

\* Lines 217-219: sqlite3_step yields a row and add_columnDefinition__ runs;
\* when it raises, the PG_CATCH block (lines 221-229) runs and rethrows.
StepRow(row) ==
    /\ pc = "Iterating"
    /\ Len(rows) < MaxCols
    /\ rows' = Append(rows, row)
    /\ counter' = counter + 1
    /\ nClassify' = nClassify + 1
    /\ LET r == add_columnDefinition__(cftsql.pieces, counter, importOptions, row)
       IN  IF r.raised
           THEN /\ cftsql' = pfree_buffer([cftsql EXCEPT !.pieces = r.buf])
                /\ \E seen \in columns_read(columns) :
                       finalized' = finalize_if_set(finalized, seen)
                /\ ret' = Rethrown(r.err)
                /\ pc' = "FailedOnColumn"
           ELSE /\ cftsql' = [cftsql EXCEPT !.pieces = r.buf]
                /\ UNCHANGED <<finalized, ret, pc>>
    /\ UNCHANGED <<required, columns, nPrepare>>
    /\ UNCHANGED <<classifyVars, inputVars, sres>>

\* Line 217 with sqlite3_step not yielding a row, then lines 232-241.
StepDone ==
    /\ pc = "Iterating"
    /\ \E seen \in columns_read(columns) :
           finalized' = finalize_if_set(finalized, seen)
    /\ cftsql' = [cftsql EXCEPT !.pieces = @ \o statement_suffix(stmt, tablename)]
    /\ ret' = ReturnText(cftsql'.pieces)
    /\ pc' = "Completed"
    /\ UNCHANGED <<required, columns, counter, rows, nPrepare, nClassify>>
    /\ UNCHANGED <<classifyVars, inputVars, sres>>

Idle ==
    /\ pc = "NotStarted" /\ required = NotRun
    /\ cftsql = [state |-> "uninit", pieces |-> <<>>]
    /\ columns = UNINIT /\ counter = 0 /\ ret = NoReturn
    /\ rows = <<>> /\ nPrepare = 0 /\ nClassify = 0 /\ finalized = <<>>

Init ==
    /\ decl = <<>> /\ nparts = 0 /\ cres = NotRun /\ sres = NotRun
    /\ stmt \in SynthStmts
    /\ tablename = "t1"
    /\ importOptions \in ImportOptions
    /\ Idle

Next ==
    \/ ScopeCheck
    \/ SkipOutOfScope
    \/ PrepareOk
    \/ PrepareRaises
    \/ \E row \in Rows : StepRow(row)
    \/ StepDone

Spec == Init /\ [][Next]_vars

-----------------------------------------------------------------------------
\* translate_sqliteType__ run on assembled declarations

AppendFragment(f) ==
    /\ ~cres.run
    /\ nparts < MaxParts
    /\ decl' = decl \o f
    /\ nparts' = nparts + 1
    /\ UNCHANGED <<cres, inputVars, sres, synthVars>>

Classify ==
    /\ ~cres.run
    /\ cres' = Ran(translate_sqliteType__(decl))
    /\ UNCHANGED <<decl, nparts, inputVars, sres, synthVars>>

InitClassify ==
    /\ decl = <<>> /\ nparts = 0 /\ cres = NotRun /\ sres = NotRun
    /\ stmt = [list_type |-> FDW_IMPORT_SCHEMA_ALL, table_list |-> <<>>,
               local_schema |-> "s", server_name |-> "srv"]
    /\ tablename = "t1"
    /\ importOptions = [import_notnull |-> FALSE, import_default |-> FALSE]
    /\ Idle

NextClassify ==
    \/ \E f \in Fragments : AppendFragment(f)
    \/ Classify

SpecClassify == InitClassify /\ [][NextClassify]_vars

-----------------------------------------------------------------------------
\* is_sqliteTableRequired run on assembled table lists

\* lappend(stmt->table_list, makeRangeVar(..., name, ...)) by the parser
AddTable(name) ==
    /\ ~sres.run
    /\ stmt.list_type # FDW_IMPORT_SCHEMA_ALL
    /\ Len(stmt.table_list) < MaxList
    /\ stmt' = [stmt EXCEPT !.table_list = Append(@, name)]
    /\ UNCHANGED <<tablename, importOptions, sres, classifyVars, synthVars>>

CheckScope ==
    /\ ~sres.run
    /\ sres' = Ran(is_sqliteTableRequired(stmt, tablename))
    /\ UNCHANGED <<inputVars, classifyVars, synthVars>>

InitScope ==
    /\ decl = <<>> /\ nparts = 0 /\ cres = NotRun /\ sres = NotRun
    /\ \E lt \in ListTypes :
           stmt = [list_type |-> lt, table_list |-> <<>>,
                   local_schema |-> "s", server_name |-> "srv"]
    /\ tablename \in TableNames
    /\ importOptions = [import_notnull |-> FALSE, import_default |-> FALSE]
    /\ Idle

NextScope ==
    \/ \E name \in TableNames : AddTable(name)
    \/ CheckScope

SpecScope == InitScope /\ [][NextScope]_vars

-----------------------------------------------------------------------------
\* Properties of the classifier (checked under SpecClassify)

TargetTypes ==
    {ty_text, ty_bigint, ty_double, ty_bytea, kw_timestamp, kw_date, ty_boolean}

\* The letters that compare equal to c when case is ignored.
CaseVariants(c) ==
    {c} \cup {UpperCase[k] : k \in {j \in DOMAIN LowerCase : LowerCase[j] = c}}

\* h contains the lowercase keyword n, compared case-insensitively.
ContainsCI(h, n) ==
    \E i \in 0..(Len(h) - Len(n)) :
        \A j \in 1..Len(n) : h[i + j] \in CaseVariants(n[j])

\* h is the lowercase word n, compared case-insensitively.
EqualsCI(h, n) == Len(h) = Len(n) /\ ContainsCI(h, n)

\* No keyword of the four affinity rules occurs: the Numeric affinity.
NumericDecl(h) ==
    \A n \in {kw_int, kw_char, kw_clob, kw_text, kw_blob, kw_real, kw_floa, kw_doub} :
        ~ContainsCI(h, n)

Classified == cres.run
Outcome == cres.value

\* C1: fail closed: a (non-empty) declaration either classifies to one of the
\* seven canonical target type names or fails; no other string is returned.
C1_FailClosed ==
    (Classified /\ decl # <<>> /\ ~Outcome.raised) => Outcome.value \in TargetTypes

\* C2: first-match keyword precedence, case-insensitively: "int" gives
\* bigint; else "char"/"clob"/"text" give text; else "blob" gives bytea; else
\* "real"/"floa"/"doub" give double precision, whatever else the declaration holds.
C2_FirstMatch ==
    Classified =>
        IF ContainsCI(decl, kw_int) THEN Outcome = Returned(ty_bigint)
        ELSE IF \E n \in {kw_char, kw_clob, kw_text} : ContainsCI(decl, n)
        THEN Outcome = Returned(ty_text)
        ELSE IF ContainsCI(decl, kw_blob) THEN Outcome = Returned(ty_bytea)
        ELSE IF \E n \in {kw_real, kw_floa, kw_doub} : ContainsCI(decl, n)
        THEN Outcome = Returned(ty_double)
        ELSE TRUE

\* "integer text" was classified: both "int" and "text" occur, "int" wins.
C2_Witness ==
    /\ Classified
    /\ decl = kw_int \o <<"e","g","e","r"," ">> \o kw_text
    /\ Outcome = Returned(ty_bigint)

\* C3: a Numeric-affinity declaration whose first 4 characters are "bool"
\* classifies to boolean, and "boo" fails with UnsupportedType.
C3_BoolPrefix ==
    (Classified /\ NumericDecl(decl)) =>
        /\ (Len(decl) >= BoolPrefixLen /\ EqualsCI(SubSeq(decl, 1, BoolPrefixLen), kw_bool))
               => Outcome = Returned(ty_boolean)
        /\ EqualsCI(decl, <<"b","o","o">>) => Outcome.raised

\* C4: a declaration that is exactly "date" (in any case) classifies to date.
C4_Date ==
    (Classified /\ EqualsCI(decl, kw_date)) => Outcome = Returned(kw_date)

-----------------------------------------------------------------------------
\* Properties of the scope filter (checked under SpecScope)

ListedNames == {stmt.table_list[i] : i \in DOMAIN stmt.table_list}

\* C5: is_sqliteTableRequired is total: under LIMIT TO it is true iff the
\* table is listed, under EXCEPT iff it is not listed, otherwise always true
\* (so an empty LIMIT TO list excludes all and an empty EXCEPT list includes all).
C5_ScopeFilter ==
    sres.run =>
        /\ sres.value \in BOOLEAN
        /\ stmt.list_type = FDW_IMPORT_SCHEMA_LIMIT_TO
               => (sres.value <=> tablename \in ListedNames)
        /\ stmt.list_type = FDW_IMPORT_SCHEMA_EXCEPT
               => (sres.value <=> tablename \notin ListedNames)
        /\ stmt.list_type = FDW_IMPORT_SCHEMA_ALL => sres.value

\* An EXCEPT list whose last cell names the table excluded it.
C5_Witness ==
    /\ sres.run
    /\ stmt.list_type = FDW_IMPORT_SCHEMA_EXCEPT
    /\ Len(stmt.table_list) = MaxList
    /\ stmt.table_list[MaxList] = tablename
    /\ stmt.table_list[1] # tablename
    /\ sres.value = FALSE

-----------------------------------------------------------------------------
\* Properties of the synthesizer (checked under Spec)

\* The classifier fails on the declared type of this row.
Unsupported(row) == translate_sqliteType__(typename_of(row)).raised

Exited == ret # NoReturn

\* C6: all-or-nothing per table: a row on which the classifier fails is the
\* last row read from the cursor, synthesis has ended in FailedOnColumn with
\* the failure rethrown to the caller, and no statement text survives (the
\* clauses of the rows before it included).
C6_AllOrNothing ==
    \A i \in DOMAIN rows :
        Unsupported(rows[i]) =>
            /\ i = Len(rows)
            /\ pc = "FailedOnColumn"
            /\ ret.kind = "error"
            /\ cftsql.state = "freed" /\ cftsql.pieces = <<>>

\* The classifier failed on the second row, after the first was processed.
C6_Witness ==
    /\ pc = "FailedOnColumn"
    /\ Len(rows) = 2
    /\ ~Unsupported(rows[1])
    /\ Unsupported(rows[2])

\* What C7 says of every state: nothing is done before the scope test, an
\* out-of-scope table gives NULL with no cursor, no classifier call and no
\* statement text, and Iterating and what follows it need a true scope test.
C7_ScopeFirst ==
    /\ ~required.run =>
           /\ pc = "NotStarted"
           /\ nPrepare = 0 /\ nClassify = 0 /\ rows = <<>>
           /\ cftsql.state = "uninit" /\ finalized = <<>> /\ ~Exited
    /\ (required.run /\ ~required.value) =>
           /\ pc \in {"ScopeChecked", "SkippedOutOfScope"}
           /\ ret \in {NoReturn, ReturnNull}
           /\ nPrepare = 0 /\ nClassify = 0 /\ rows = <<>>
           /\ cftsql.state = "uninit" /\ columns = UNINIT /\ finalized = <<>>
    /\ pc = "SkippedOutOfScope" => ret = ReturnNull
    /\ pc \in {"Iterating", "Completed", "FailedOnColumn"} =>
           required.run /\ required.value
    /\ pc = "Completed" => ret.kind = "text"
    /\ pc = "FailedOnColumn" =>
           ret.kind = "error" /\ rows # <<>> /\ Unsupported(rows[Len(rows)])

\* The steps of the state machine of C7.
C7_Edges ==
    \/ pc = "NotStarted" /\ pc' = "ScopeChecked"
    \/ pc = "ScopeChecked" /\ pc' \in {"SkippedOutOfScope", "Iterating"}
    \/ pc = "Iterating" /\ pc' \in {"Iterating", "Completed", "FailedOnColumn"}

\* The outcomes of the state machine of C7.
C7_Outcomes ==
    Exited => pc \in {"SkippedOutOfScope", "Completed", "FailedOnColumn"}

\* C7 as stated: every exit of the synthesis is SkippedOutOfScope, Completed
\* or FailedOnColumn, reached along NotStarted -> ScopeChecked ->
\* (SkippedOutOfScope | Iterating -> (Completed | FailedOnColumn)).
C7_Original == C7_ScopeFirst /\ C7_Outcomes

\* The step by which the synthesis ends when preparing the cursor raises.
C7_PrepareEdge ==
    /\ pc = "ScopeChecked" /\ required.value
    /\ pc' = "FailedOnPrepare"
    /\ ret'.kind = "error" /\ rows' = <<>> /\ nClassify' = 0

\* C7, amended: the scope test comes first and an out-of-scope table gives
\* NULL and touches nothing; an in-scope table goes NotStarted -> ScopeChecked
\* -> (Iterating -> (Completed | FailedOnColumn)), or leaves ScopeChecked with
\* the error of a failed prepare, before any row is read or classified.
C7_Amended == [](C7_ScopeFirst) /\ [][C7_Edges \/ C7_PrepareEdge]_vars

\* An out-of-scope table was skipped.
C7_Witness ==
    /\ pc = "SkippedOutOfScope"
    /\ required = Ran(FALSE)
    /\ ret = ReturnNull

RECURSIVE Count(_, _)
Count(seq, x) ==
    IF seq = <<>> THEN 0
    ELSE (IF Head(seq) = x THEN 1 ELSE 0) + Count(Tail(seq), x)

\* The column clause of a row, as the statement's shape prescribes it.
ExpectedClause(row) ==
    <<Lit("\n"), Ident(row.name), Lit(" "),
      Type(translate_sqliteType__(typename_of(row)).value), Lit(" ")>>
    \o (IF importOptions.import_notnull /\ row.notnull = 1
        THEN <<Lit(" NOT NULL ")>> ELSE <<>>)
    \o (IF importOptions.import_default /\ row.dflt_class # SQLITE_NULL
        THEN <<Lit(" DEFAULT "), Raw(row.dflt_text), Lit(" ")>> ELSE <<>>)

\* The clauses of rs in order, one comma between neighbours.
RECURSIVE ExpectedColumns(_)
ExpectedColumns(rs) ==
    IF rs = <<>> THEN <<>>
    ELSE IF Len(rs) = 1 THEN ExpectedClause(rs[1])
    ELSE ExpectedColumns(SubSeq(rs, 1, Len(rs) - 1))
             \o <<Lit(",")>> \o ExpectedClause(rs[Len(rs)])

\* C8: a completed synthesis over n rows returns prefix, the n clauses in
\* cursor order and suffix, with max(n-1, 0) separating commas.
C8_ColumnOrder ==
    pc = "Completed" =>
        /\ ret.data = statement_prefix(stmt, tablename)
                          \o ExpectedColumns(rows)
                          \o statement_suffix(stmt, tablename)
        /\ Count(ret.data, Lit("\n")) = Len(rows)
        /\ Count(ret.data, Lit(",")) = IF Len(rows) = 0 THEN 0 ELSE Len(rows) - 1

\* A statement with two different columns was completed.
C8_Witness ==
    /\ pc = "Completed"
    /\ Len(rows) = 2
    /\ rows[1].name # rows[2].name

\* The pieces written for the columns so far (the buffer less its prefix).
ColumnPieces ==
    SubSeq(cftsql.pieces, Len(statement_prefix(stmt, tablename)) + 1, Len(cftsql.pieces))

\* Index in ColumnPieces of the i-th newline, where the i-th clause starts.
ClauseStart(i) ==
    CHOOSE k \in DOMAIN ColumnPieces :
        /\ ColumnPieces[k] = Lit("\n")
        /\ Count(SubSeq(ColumnPieces, 1, k), Lit("\n")) = i

\* The pieces of the i-th clause: from its newline up to the next one.
ClausePieces(i) ==
    SubSeq(ColumnPieces, ClauseStart(i),
           IF i < Len(rows) THEN ClauseStart(i + 1) - 1 ELSE Len(ColumnPieces))

Has(seq, x) == \E k \in DOMAIN seq : seq[k] = x

\* C9: while columns are being written, the clause of each row holds
\* " NOT NULL" iff import_notnull is on and the row's flag is 1, and holds
\* " DEFAULT <text>" iff import_default is on and the row has a default,
\* <text> being the row's default text as it is.
C9_OptionalClauses ==
    pc = "Iterating" =>
        /\ Count(ColumnPieces, Lit("\n")) = Len(rows)
        /\ \A i \in DOMAIN rows :
               LET c == ClausePieces(i) IN
               /\ Has(c, Lit(" NOT NULL "))
                      <=> (importOptions.import_notnull /\ rows[i].notnull = 1)
               /\ Has(c, Lit(" DEFAULT "))
                      <=> (importOptions.import_default /\ rows[i].dflt_class # SQLITE_NULL)
               /\ \A k \in DOMAIN c :
                      c[k] = Lit(" DEFAULT ") =>
                          k < Len(c) /\ c[k + 1] = Raw(rows[i].dflt_text)

\* NOT NULL was imported and DEFAULT was not, for a row that has both.
C9_Witness ==
    /\ pc = "Iterating"
    /\ importOptions = [import_notnull |-> TRUE, import_default |-> FALSE]
    /\ Len(rows) = 1
    /\ rows[1].notnull = 1 /\ rows[1].dflt_class # SQLITE_NULL
    /\ Has(ClausePieces(1), Lit(" NOT NULL "))
    /\ ~Has(ClausePieces(1), Lit(" DEFAULT "))

\* C10: at every exit, a cursor that was prepared has been finalized exactly
\* once, and sqlite3_finalize was called on nothing else.
C10_CursorRelease ==
    Exited =>
        IF columns = STMT THEN finalized = <<STMT>> ELSE finalized = <<>>

====
